---- MODULE Spec2Model ----
(***************************************************************************)
(* Model of the captioning pipeline of AleDella/Provone: the model classes *)
(* of models.py (construction and forward), the loss, the vocabulary       *)
(* inversion, the decoder's sampling loop and the evaluation loops of      *)
(* eval.py, with the model's mode across them and eval_classification.     *)
(*                                                                         *)
(* Python dicts are insertion-ordered sequences of <<key, value>> pairs.   *)
(* Sigmoid outputs are in tenths (7 stands for 0.7).                       *)
(***************************************************************************)
EXTENDS Integers, Sequences, FiniteSets, TLC

VARIABLES
    self,       \* the constructed nn.Module: its class and the fields __init__ sets
    fwd,        \* the last forward call: its inputs, locals and outcome
    voc,        \* a vocabulary and the id -> token mapping built from it
    dec,        \* the decoder's run over the token positions
    ls,         \* one call of _loss: its inputs, the positions read, the result
    ev,         \* one run of an evaluation function of eval.py
    inf,        \* the model's mode and the forward calls the eval functions make
    cl          \* one run of eval_classification

vars == <<self, fwd, voc, dec, ls, ev, inf, cl>>

----------------------------------------------------------------------------
(* Bounds *)

MaxBatch == 2          \* samples per batch
MaxCalls == 3          \* forward calls followed over the evaluation runs
MaxImages == 2         \* distinct samples those calls are made on
MaxFeatsDim == 2       \* feats_dim ranges over 1..MaxFeatsDim
MaxId == 2             \* token ids of a vocabulary range over 0..MaxId
MaxSeqLen == 4         \* max_seq_len of the decoder ranges over 1..MaxSeqLen
MaxLossLen == 2        \* max_seq_len of a loss call ranges over 1..MaxLossLen
NumSamples == 3        \* samples of the evaluated dataset

(* Program constants *)

InputSize == 224       \* the side the classifiers are configured with
Threshold == 5         \* threshold = 0.5, in tenths
DropoutP == 3          \* nn.Dropout(p=0.3), in tenths

----------------------------------------------------------------------------
(* Python dict *)

HasKey(d, k) == \E i \in DOMAIN d : d[i][1] = k

Get(d, k) == d[CHOOSE i \in DOMAIN d : d[i][1] = k][2]

Put(d, k, v) ==
    IF HasKey(d, k)
    THEN [i \in DOMAIN d |-> IF d[i][1] = k THEN <<k, v>> ELSE d[i]]
    ELSE Append(d, <<k, v>>)

RECURSIVE InvertFrom(_, _, _)
InvertFrom(d, i, acc) ==
    IF i > Len(d) THEN acc
    ELSE InvertFrom(d, i + 1, Put(acc, d[i][2], d[i][1]))

\* {v: k for k, v in d.items()}, dropping the last item
InvertDictDropLast(d) ==
    IF d = <<>> THEN <<>> ELSE InvertFrom(SubSeq(d, 1, Len(d) - 1), 1, <<>>)

\* {v: k for k, v in d.items()}
InvertDict(d) == InvertFrom(d, 1, <<>>)

----------------------------------------------------------------------------
(* Fixtures: the triplet dictionary of the dataset and the classifier's    *)
(* possible (absent, present) score pairs                                  *)

Placeholder == <<"There", "is", "no triplet">>

tripl2idx ==
    << <<(<<"plane", "on", "runway">>), 0>>,
       <<(<<"plane", "near", "plane">>), 1>> >>

\* raw (absent, present) outputs of one head of the classifier
LogitPairs == {<<2, -2>>, <<-2, -1>>, <<2, 1>>}

Sides == {InputSize, InputSize + 1}

DecoderTypes == {"linear", "lstm", "rnn"}

NumClasses == Len(tripl2idx)

Tokens == {"<eos>", "<unk>", "plane"}

Ids == 0..MaxId

Injective(d) ==
    \A i, j \in DOMAIN d : i # j => (d[i][1] # d[j][1] /\ d[i][2] # d[j][2])

\* the token -> id mappings a dataset can build: no token twice, no id twice
Vocabularies ==
    {d \in UNION {[1..n -> Tokens \X Ids] : n \in 0..Cardinality(Tokens)} :
        Injective(d)}

NoVoc == [pc |-> "off", vocab2idx |-> <<>>, idx2vocab |-> <<>>]

NoDec ==
    [pc |-> "off", mode |-> "none", max_seq_len |-> 0, pos |-> 0, out |-> <<>>,
     touched |-> {}]

NoLoss ==
    [pc |-> "off", max_seq_len |-> 0, out |-> <<>>, labels |-> <<>>,
     read |-> <<>>, loss |-> [num |-> 0, den |-> 1]]

NoEval ==
    [pc |-> "off", fn |-> "none", batch_size |-> 0, word2idx |-> <<>>,
     idx2word |-> <<>>, mode |-> "train", done |-> 0, result |-> <<>>,
     truth |-> <<>>, file |-> <<>>, written |-> 0]

NoInfer ==
    [pc |-> "off", fn |-> "none", training |-> TRUE, enc |-> <<>>,
     fresh |-> FALSE, calls |-> <<>>]

NoClassif ==
    [pc |-> "off", n |-> 0, batch |-> 0, i |-> 0, accuracy_test |-> 0,
     scores |-> <<>>, report |-> [num |-> 0, den |-> 1]]

NoCall ==
    [pc |-> "idle", img_shape |-> <<>>, class_out |-> <<>>, selected |-> <<>>,
     triplets |-> <<>>,
     graph |-> <<>>, feats |-> <<>>, mod_width |-> 0, decoded_by |-> "none",
     steps |-> <<>>]

----------------------------------------------------------------------------
(* Construction *)

\* CaptionGenerator.__init__: every decoder is built on feats_dim
CaptionGenerator_init(feats_dim, decoder) ==
    [cls |-> "CaptionGenerator", decoder_type |-> decoder, feats_dim |-> feats_dim,
     decoder_in |-> feats_dim, input_size |-> 0, enc_input_size |-> 0,
     idx2tripl |-> <<>>]

\* AugmentedCaptionGenerator.__init__: every decoder is built on feats_dim
AugmentedCaptionGenerator_init(enc_input_size, feats_dim, decoder) ==
    [cls |-> "AugmentedCaptionGenerator", decoder_type |-> decoder,
     feats_dim |-> feats_dim, decoder_in |-> feats_dim, input_size |-> 0,
     enc_input_size |-> enc_input_size, idx2tripl |-> <<>>]

\* the width each decoder of FinalModel is built on: only the linear one
\* was widened for the concatenation
FinalModel_decoder_in(feats_dim, decoder) ==
    IF decoder = "linear" THEN feats_dim * 2 ELSE feats_dim

\* FinalModel.__init__
FinalModel_init(enc_input_size, feats_dim, img_dim, decoder) ==
    [cls |-> "FinalModel", decoder_type |-> decoder, feats_dim |-> feats_dim,
     decoder_in |-> FinalModel_decoder_in(feats_dim, decoder),
     input_size |-> img_dim, enc_input_size |-> enc_input_size,
     idx2tripl |-> InvertDict(tripl2idx)]

\* FinetunedModel.__init__: the decoder is a whole model loaded from a file
FinetunedModel_init(img_dim) ==
    [cls |-> "FinetunedModel", decoder_type |-> "loaded", feats_dim |-> 0,
     decoder_in |-> 0, input_size |-> img_dim, enc_input_size |-> img_dim,
     idx2tripl |-> InvertDict(tripl2idx)]

FeatsDims == 1..MaxFeatsDim

Models ==
    {CaptionGenerator_init(f, d) : f \in FeatsDims, d \in DecoderTypes}
    \cup {AugmentedCaptionGenerator_init(e, f, d) :
              e \in Sides, f \in FeatsDims, d \in DecoderTypes}
    \cup UNION {{FinalModel_init(e, f, i, d) : e \in Sides, i \in Sides} :
                   f \in FeatsDims, d \in DecoderTypes}
    \cup {FinetunedModel_init(i) : i \in Sides}

----------------------------------------------------------------------------
(* The steps of forward *)

\* assert x.shape[2] == only (dimension 3 unchecked)
ShapeAssertHeightOnly(input_size, shape) == shape[1] = input_size

\* assert x.shape[2]==self.input_size; assert x.shape[3]==self.input_size
ShapeAssert(input_size, shape) ==
    shape[1] = input_size /\ shape[2] = input_size

\* nn.Sigmoid on the logits the model draws, rounded to tenths
sigmoid(x) ==
    CASE x = -2 -> 1 [] x = -1 -> 3 [] x = 0 -> 5 [] x = 1 -> 7 [] x = 2 -> 9

\* self.sigmoid(...) elementwise, then reshape to (batch, classes, 2)
SigmoidAll(logits) ==
    [s \in DOMAIN logits |->
        [c \in DOMAIN logits[s] |->
            <<sigmoid(logits[s][c][1]), sigmoid(logits[s][c][2])>>]]

\* torch.argmax over one (absent, present) pair: the first index of the maximum
argmax(logits) == IF logits[2] > logits[1] THEN 1 ELSE 0

\* a decision taken on the 'present' score alone, against the threshold
DecisionsByScore(class_out) ==
    [s \in DOMAIN class_out |->
        [c \in DOMAIN class_out[s] |->
            IF class_out[s][c][2] >= Threshold THEN 1 ELSE 0]]

\* [[torch.argmax(logits).item() for logits in img] for img in triplets]
Decisions(class_out) ==
    [s \in DOMAIN class_out |->
        [c \in DOMAIN class_out[s] |-> argmax(class_out[s][c])]]

RECURSIVE IndecesFrom(_, _)
IndecesFrom(s, i) ==
    IF i > Len(s) THEN <<>>
    ELSE (IF 10 * s[i] >= Threshold THEN <<i - 1>> ELSE <<>>)
         \o IndecesFrom(s, i + 1)

\* [[i for i, d in enumerate(s) if d >= threshold] for s in triplets]
indeces(decisions) ==
    [s \in DOMAIN decisions |-> IndecesFrom(decisions[s], 1)]

\* [[self.idx2tripl[i] for i in s] for s in indeces]
ExtractTriplets(idx, idx2tripl) ==
    [s \in DOMAIN idx |-> [j \in DOMAIN idx[s] |-> Get(idx2tripl, idx[s][j])]]

\* the loop without its body's effect: empty lists stay empty
AddProxyNever(triplets) == triplets

\* for s in triplets: if s == []: s.append("('There', 'is', 'no triplet')")
AddProxy(triplets) ==
    [s \in DOMAIN triplets |->
        IF triplets[s] = <<>> THEN <<Placeholder>> ELSE triplets[s]]

RECURSIVE SampleNodes(_)
SampleNodes(ts) ==
    IF ts = <<>> THEN <<>>
    ELSE <<ts[1][1], ts[1][2], ts[1][3]>> \o SampleNodes(Tail(ts))

RECURSIVE SampleEdges(_, _)
SampleEdges(ts, k) ==
    IF k > Len(ts) THEN <<>>
    ELSE << <<3 * (k - 1), 3 * (k - 1) + 1>>, <<3 * (k - 1) + 1, 3 * (k - 1) + 2>> >>
         \o SampleEdges(ts, k + 1)

RECURSIVE Rows(_)
Rows(graphs) ==
    IF graphs = <<>> THEN <<>> ELSE graphs[1].nodes \o Rows(Tail(graphs))

RECURSIVE Distinct(_)
Distinct(seq) ==
    IF seq = <<>> THEN <<>>
    ELSE LET rest == Distinct(SubSeq(seq, 1, Len(seq) - 1))
             x == seq[Len(seq)]
         IN IF \E i \in DOMAIN rest : rest[i] = x THEN rest ELSE Append(rest, x)

\* a builder that reuses the node of a term repeated within a sample
tripl2graphDedup(triplets) ==
    LET graphs == [s \in DOMAIN triplets |->
                      [nodes |-> Distinct(SampleNodes(triplets[s])),
                       edges |-> SampleEdges(triplets[s], 1)]]
    IN [graphs |-> graphs, feats |-> Rows(graphs)]

\* tripl2graph: per sample three nodes (s, p, o) and two edges (s->p, p->o)
\* for each triplet, and one feature row (the encoded term) per node in the
\* batched graph's node order
tripl2graph(triplets) ==
    LET graphs == [s \in DOMAIN triplets |->
                      [nodes |-> SampleNodes(triplets[s]),
                       edges |-> SampleEdges(triplets[s], 1)]]
    IN [graphs |-> graphs, feats |-> Rows(graphs)]

\* the three ifs of CaptionGenerator.forward and of
\* AugmentedCaptionGenerator.forward that bind decoded_out
Dispatch3(decoder_type) ==
    LET d1 == IF decoder_type = "linear" THEN "linear" ELSE "unbound"
        d2 == IF decoder_type = "lstm" THEN "lstm" ELSE d1
        d3 == IF decoder_type = "rnn" THEN "rnn" ELSE d2
    IN d3

\* the ifs of FinalModel.forward that bind decoded_out: the rnn one is
\* commented out
FinalModel_dispatch(decoder_type) ==
    LET d1 == IF decoder_type = "linear" THEN "linear" ELSE "unbound"
        d2 == IF decoder_type = "lstm" THEN "lstm" ELSE d1
    IN d2

\* what calling a decoder on a vector of the given width can do: a decoder
\* built on another width may reject it
DecoderOutcomes(slf, width) ==
    IF slf.decoder_in = width THEN {"returned"} ELSE {"returned", "RuntimeError"}

\* the tail shared by the forwards: bind decoded_out and return it
Decode(call, by, outcome) ==
    IF by = "unbound"
    THEN [call EXCEPT !.pc = "UnboundLocalError"]
    ELSE [call EXCEPT !.pc = outcome,
                      !.decoded_by = IF outcome = "returned" THEN by ELSE "none",
                      !.steps = Append(@, "decoder")]

\* CaptionGenerator.forward(g, feats, labels)
CaptionGenerator_forward(slf, g, outcome) ==
    LET c1 == [NoCall EXCEPT !.graph = g.graphs, !.feats = g.feats,
                             !.mod_width = slf.feats_dim,
                             !.steps = <<"graph_encoder">>]
    IN Decode(c1, Dispatch3(slf.decoder_type), outcome)

\* AugmentedCaptionGenerator.forward(g, g_feats, img, labels): weighted sum
AugmentedCaptionGenerator_forward(slf, g, shape, outcome) ==
    LET c0 == [NoCall EXCEPT !.img_shape = shape, !.graph = g.graphs,
                             !.feats = g.feats, !.steps = <<"img_encoder">>]
    IN IF ~ShapeAssert(slf.enc_input_size, shape)
       THEN [c0 EXCEPT !.pc = "AssertionError"]
       ELSE LET c1 == [c0 EXCEPT !.mod_width = slf.feats_dim,
                                 !.steps = @ \o <<"graph_encoder", "fusion">>]
            IN Decode(c1, Dispatch3(slf.decoder_type), outcome)

\* FinalModel.forward(img): concatenation
FinalModel_forward(slf, shape, logits, outcome) ==
    LET c0 == [NoCall EXCEPT !.img_shape = shape,
                             !.steps = <<"tripl_classifier">>]
    IN IF ~ShapeAssert(slf.input_size, shape)
       THEN [c0 EXCEPT !.pc = "AssertionError"]
       ELSE
         LET class_out == SigmoidAll(logits)
             selected == ExtractTriplets(indeces(Decisions(class_out)),
                                         slf.idx2tripl)
             triplets == AddProxy(selected)
             g == tripl2graph(triplets)
             c1 == [c0 EXCEPT !.class_out = class_out, !.selected = selected,
                              !.triplets = triplets, !.graph = g.graphs,
                              !.feats = g.feats,
                              !.steps = @ \o <<"select", "proxy", "tripl2graph",
                                               "img_encoder">>]
         IN IF ~ShapeAssert(slf.enc_input_size, shape)
            THEN [c1 EXCEPT !.pc = "AssertionError"]
            ELSE LET c2 == [c1 EXCEPT !.mod_width = slf.feats_dim * 2,
                                      !.steps = @ \o <<"graph_encoder", "fusion">>]
                 IN Decode(c2, FinalModel_dispatch(slf.decoder_type), outcome)

\* FinetunedModel.forward(img): no sigmoid, the loaded model decodes
FinetunedModel_forward(slf, shape, logits) ==
    LET c0 == [NoCall EXCEPT !.img_shape = shape,
                             !.steps = <<"tripl_classifier">>]
    IN IF ~ShapeAssert(slf.input_size, shape)
       THEN [c0 EXCEPT !.pc = "AssertionError"]
       ELSE
         LET class_out == logits
             selected == ExtractTriplets(indeces(Decisions(class_out)),
                                         slf.idx2tripl)
             triplets == AddProxy(selected)
             g == tripl2graph(triplets)
             c1 == [c0 EXCEPT !.class_out = class_out, !.selected = selected,
                              !.triplets = triplets, !.graph = g.graphs,
                              !.feats = g.feats,
                              !.steps = @ \o <<"select", "proxy", "tripl2graph">>]
         IN Decode(c1, "loaded", "returned")

----------------------------------------------------------------------------
(* Inputs of forward *)

Shapes == Sides \X Sides

Logits(n) == [1..n -> [1..NumClasses -> LogitPairs]]

\* a batch of dataset graphs: one ground-truth triplet per sample
DatasetGraph(n) == tripl2graph([s \in 1..n |-> <<tripl2idx[1][1]>>])

----------------------------------------------------------------------------
(* Specification of construction and forward: Init is a constructed model, *)
(* each action is one forward call on it, observed when it ends            *)

Init ==
    /\ inf = NoInfer /\ cl = NoClassif
    /\ self \in Models
    /\ fwd = NoCall
    /\ voc = NoVoc /\ dec = NoDec /\ ls = NoLoss /\ ev = NoEval

CallCaptionGenerator ==
    /\ self.cls = "CaptionGenerator"
    /\ fwd.pc = "idle"
    /\ \E n \in 1..MaxBatch :
         \E outcome \in DecoderOutcomes(self, self.feats_dim) :
            fwd' = CaptionGenerator_forward(self, DatasetGraph(n), outcome)
    /\ UNCHANGED <<self, voc, dec, ls, ev, inf, cl>>

CallAugmentedCaptionGenerator ==
    /\ self.cls = "AugmentedCaptionGenerator"
    /\ fwd.pc = "idle"
    /\ \E n \in 1..MaxBatch, shape \in Shapes :
         \E outcome \in DecoderOutcomes(self, self.feats_dim) :
            fwd' = AugmentedCaptionGenerator_forward(self, DatasetGraph(n),
                                                     shape, outcome)
    /\ UNCHANGED <<self, voc, dec, ls, ev, inf, cl>>

CallFinalModel ==
    /\ self.cls = "FinalModel"
    /\ fwd.pc = "idle"
    /\ \E n \in 1..MaxBatch, shape \in Shapes :
         \E logits \in Logits(n) :
            \E outcome \in DecoderOutcomes(self, self.feats_dim * 2) :
               fwd' = FinalModel_forward(self, shape, logits, outcome)
    /\ UNCHANGED <<self, voc, dec, ls, ev, inf, cl>>

CallFinetunedModel ==
    /\ self.cls = "FinetunedModel"
    /\ fwd.pc = "idle"
    /\ \E n \in 1..MaxBatch, shape \in Shapes :
         \E logits \in Logits(n) :
            fwd' = FinetunedModel_forward(self, shape, logits)
    /\ UNCHANGED <<self, voc, dec, ls, ev, inf, cl>>

Next ==
    \/ CallCaptionGenerator
    \/ CallAugmentedCaptionGenerator
    \/ CallFinalModel
    \/ CallFinetunedModel

Spec == Init /\ [][Next]_vars

----------------------------------------------------------------------------
(* Specification of the vocabulary: the model's __init__ (and each eval     *)
(* function) inverts the token -> id mapping it is given                   *)

NoModel ==
    [cls |-> "none", decoder_type |-> "none", feats_dim |-> 0, decoder_in |-> 0,
     input_size |-> 0, enc_input_size |-> 0, idx2tripl |-> <<>>]

InitVocab ==
    /\ inf = NoInfer /\ cl = NoClassif
    /\ voc \in {[pc |-> "given", vocab2idx |-> d, idx2vocab |-> <<>>] :
                    d \in Vocabularies}
    /\ self = NoModel /\ fwd = NoCall
    /\ dec = NoDec /\ ls = NoLoss /\ ev = NoEval

\* self.vocab2idx = vocab2idx
\* self.idx2vocab = {v: k for k, v in vocab2idx.items()}
BuildIdx2Vocab ==
    /\ voc.pc = "given"
    /\ voc' = [voc EXCEPT !.pc = "built", !.idx2vocab = InvertDict(voc.vocab2idx)]
    /\ UNCHANGED <<self, fwd, dec, ls, ev, inf, cl>>

NextVocab == BuildIdx2Vocab

SpecVocab == InitVocab /\ [][NextVocab]_vars

----------------------------------------------------------------------------
(* Specification of the sequence decoder: a state machine over the token    *)
(* positions 0..max_seq_len-1, free-running ("sample") or teacher-forced    *)

\* the id of the end-of-sequence token
IsEos(tok) == tok = 0

\* a free-running step that does not look at the token it emitted
SampleStepNoStop(d, tok) ==
    [d EXCEPT !.out = Append(@, tok), !.pos = @ + 1,
              !.touched = @ \cup {d.pos},
              !.pc = IF d.pos + 1 = d.max_seq_len THEN "done" ELSE "run"]

\* one free-running step: emit the highest-scoring token at position pos,
\* stop on the end-of-sequence token or at max_seq_len
SampleStep(d, tok) ==
    [d EXCEPT !.out = Append(@, tok), !.pos = @ + 1,
              !.touched = @ \cup {d.pos},
              !.pc = IF IsEos(tok) \/ d.pos + 1 = d.max_seq_len
                     THEN "done" ELSE "run"]

\* one teacher-forced step: consume the ground-truth token of position pos,
\* emit the scores of that position, run the full configured length
TeacherStep(d, tok) ==
    [d EXCEPT !.out = Append(@, tok), !.pos = @ + 1,
              !.touched = @ \cup {d.pos},
              !.pc = IF d.pos + 1 = d.max_seq_len THEN "done" ELSE "run"]

InitDecoder ==
    /\ inf = NoInfer /\ cl = NoClassif
    /\ dec \in {[pc |-> "run", mode |-> m, max_seq_len |-> n, pos |-> 0,
                  out |-> <<>>, touched |-> {}] :
                    m \in {"sample", "teacher"}, n \in 1..MaxSeqLen}
    /\ self = NoModel /\ fwd = NoCall
    /\ voc = NoVoc /\ ls = NoLoss /\ ev = NoEval

Sample ==
    /\ dec.pc = "run" /\ dec.mode = "sample"
    /\ \E tok \in Ids : dec' = SampleStep(dec, tok)
    /\ UNCHANGED <<self, fwd, voc, ls, ev, inf, cl>>

TeacherForce ==
    /\ dec.pc = "run" /\ dec.mode = "teacher"
    /\ \E tok \in Ids : dec' = TeacherStep(dec, tok)
    /\ UNCHANGED <<self, fwd, voc, ls, ev, inf, cl>>

NextDecoder == Sample \/ TeacherForce

SpecDecoder == InitDecoder /\ [][NextDecoder]_vars

----------------------------------------------------------------------------
(* Specification of the loss.  out[i][b] is what the decoder predicts at    *)
(* position i for sample b, abstracted to the id it favours; labels[b] is  *)
(* the caption of sample b (word ids); a loss value is a fraction num/den. *)

WordIds == {1}

\* _encode_seq_to_arr: the caption cut to max_seq_len and padded with id 0
_encode_seq_to_arr(label, max_seq_len) ==
    [i \in 1..max_seq_len |-> IF i <= Len(label) THEN label[i] ELSE 0]

\* -log softmax(scores)[y] of one sample, in whole units
NLL(predicted, y) == IF predicted = y THEN 1 ELSE 3

FracAdd(a, b) == [num |-> a.num * b.den + b.num * a.den, den |-> a.den * b.den]

RECURSIVE SumNLL(_, _, _)
SumNLL(scores, targets, b) ==
    IF b > Len(targets) THEN 0
    ELSE NLL(scores[b], targets[b]) + SumNLL(scores, targets, b + 1)

\* nn.CrossEntropyLoss()(scores, targets): the mean over the batch
CrossEntropyLoss(scores, targets) ==
    [num |-> SumNLL(scores, targets, 1), den |-> Len(targets)]

RECURSIVE SumLoss(_, _, _)
SumLoss(out, batched_label, i) ==
    IF i >= Len(out) THEN [num |-> 0, den |-> 1]
    ELSE FracAdd(CrossEntropyLoss(out[i + 1],
                                  [b \in DOMAIN batched_label |-> batched_label[b][i + 1]]),
                 SumLoss(out, batched_label, i + 1))

RECURSIVE SumNLLNoPad(_, _, _, _, _)
SumNLLNoPad(scores, targets, labels, i, b) ==
    IF b > Len(targets) THEN 0
    ELSE (IF i < Len(labels[b]) THEN NLL(scores[b], targets[b]) ELSE 0)
         + SumNLLNoPad(scores, targets, labels, i, b + 1)

RECURSIVE SumLossNoPad(_, _, _, _)
SumLossNoPad(out, batched_label, labels, i) ==
    IF i >= Len(out) THEN [num |-> 0, den |-> 1]
    ELSE FracAdd([num |-> SumNLLNoPad(out[i + 1],
                                      [b \in DOMAIN labels |-> batched_label[b][i + 1]],
                                      labels, i, 1),
                  den |-> Len(labels)],
                 SumLossNoPad(out, batched_label, labels, i + 1))

\* a loss that leaves the padding positions out of the sum
_lossMasked(out, labels, max_seq_len) ==
    LET batched_label == [b \in DOMAIN labels |->
                             _encode_seq_to_arr(labels[b], max_seq_len)]
        total == SumLossNoPad(out, batched_label, labels, 0)
    IN [read |-> [i \in 1..max_seq_len |-> i - 1],
        loss |-> [num |-> total.num, den |-> total.den * max_seq_len]]

\* batched_label = torch.vstack([_encode_seq_to_arr(label, ...) for label in labels])
\* sum([CrossEntropyLoss()(out[i], batched_label[:, i])
\*      for i in range(max_seq_len)]) / max_seq_len
_loss(out, labels, max_seq_len) ==
    LET batched_label == [b \in DOMAIN labels |->
                             _encode_seq_to_arr(labels[b], max_seq_len)]
        total == SumLoss(out, batched_label, 0)
    IN [read |-> [i \in 1..max_seq_len |-> i - 1],
        loss |-> [num |-> total.num, den |-> total.den * max_seq_len]]

Captions(max_len) == UNION {[1..n -> WordIds] : n \in 0..max_len}

InitLoss ==
    /\ inf = NoInfer /\ cl = NoClassif
    /\ \E n \in 1..MaxBatch, m \in 1..MaxLossLen :
          ls \in {[pc |-> "called", max_seq_len |-> m, out |-> o, labels |-> l,
                   read |-> <<>>, loss |-> [num |-> 0, den |-> 1]] :
                     o \in [1..m -> [1..n -> WordIds \cup {0}]],
                     l \in [1..n -> Captions(m)]}
    /\ self = NoModel /\ fwd = NoCall
    /\ voc = NoVoc /\ dec = NoDec /\ ev = NoEval

Loss ==
    /\ ls.pc = "called"
    /\ LET r == _loss(ls.out, ls.labels, ls.max_seq_len)
       IN ls' = [ls EXCEPT !.pc = "done", !.read = r.read, !.loss = r.loss]
    /\ UNCHANGED <<self, fwd, voc, dec, ev, inf, cl>>

NextLoss == Loss

SpecLoss == InitLoss /\ [][NextLoss]_vars

----------------------------------------------------------------------------
(* Specification of the evaluation functions of eval.py: the loop over the  *)
(* batches of the dataset, then the result file.  The sample ids are        *)
(* 1..NumSamples in dataset order; truth records, per sample id, the ids    *)
(* the model decodes for that sample.                                       *)

EvalFunctions ==
    {"eval_captions", "augmented_eval_captions", "eval_pipeline", "eval_waterfall"}

\* dataset.word2idx of the evaluated dataset: the vocabulary the model was
\* trained on, or a smaller one
EvalVocabs ==
    { << <<"<eos>", 0>>, <<"<unk>", 1>>, <<"plane", 2>>, <<"runway", 3>> >>,
      << <<"<eos>", 0>>, <<"<unk>", 1>>, <<"plane", 2>> >> }

\* the id sequences the model decodes for a sample
Outputs == {<<2, 0>>, <<3, 2, 0>>, <<2, 2>>}

\* the ids of the batch that starts after `done` samples (shuffle=False)
BatchIds(done, batch_size) ==
    [k \in 1..(IF done + batch_size <= NumSamples
               THEN batch_size ELSE NumSamples - done) |-> done + k]

\* an entry whose length counts one token too many
EntryLengthOff(tokens) ==
    << <<"caption length", Len(tokens) + 1>>, <<"caption ", tokens>> >>

\* {"caption length": len(tokens), "caption ": tokens}
Entry(tokens) == << <<"caption length", Len(tokens)>>, <<"caption ", tokens>> >>

\* decode_output(outputs, idx2word): the token list of each sample of the
\* batch, an id outside the vocabulary giving the unknown token
DecodeOutput(caps, idx2word) ==
    [k \in DOMAIN caps |->
        [i \in DOMAIN caps[k] |->
            IF HasKey(idx2word, caps[k][i]) THEN Get(idx2word, caps[k][i])
            ELSE "<unk>"]]

RECURSIVE StoreIndexed(_, _, _, _)
StoreIndexed(result, ids, decoded_outputs, i) ==
    IF i > Len(ids) THEN result
    ELSE StoreIndexed(Put(result, ids[i], Entry(decoded_outputs[i])),
                      ids, decoded_outputs, i + 1)

RECURSIVE StoreSame(_, _, _, _)
StoreSame(result, ids, decode_output, i) ==
    IF i > Len(ids) THEN result
    ELSE StoreSame(Put(result, ids[i], Entry(decode_output)),
                   ids, decode_output, i + 1)

RECURSIVE Remember(_, _, _, _)
Remember(truth, ids, caps, i) ==
    IF i > Len(ids) THEN truth
    ELSE Remember(Put(truth, ids[i], caps[i]), ids, caps, i + 1)

\* the body of the loop of eval_captions and augmented_eval_captions
CaptionsBatch(e, ids, caps, raised) ==
    IF raised THEN [e EXCEPT !.pc = "Raised"]
    ELSE LET decoded_outputs == DecodeOutput(caps, e.idx2word)
         IN [e EXCEPT !.result = StoreIndexed(@, ids, decoded_outputs, 1),
                      !.truth = Remember(@, ids, caps, 1),
                      !.done = @ + Len(ids)]

\* a loop body that skips the batch whose lookup fails and goes on
PipelineBatchSkip(e, ids, caps, cap_output, raised) ==
    IF raised THEN [e EXCEPT !.pc = "Raised"]
    ELSE IF \E i \in DOMAIN cap_output : ~HasKey(e.idx2word, cap_output[i])
    THEN [e EXCEPT !.done = @ + Len(ids)]
    ELSE LET decode_output == [i \in DOMAIN cap_output |->
                                  Get(e.idx2word, cap_output[i])]
         IN [e EXCEPT !.result = StoreSame(@, ids, decode_output, 1),
                      !.truth = Remember(@, ids, caps, 1),
                      !.done = @ + Len(ids)]

\* the body of the loop of eval_pipeline and eval_waterfall: cap_output is
\* the one id list model.sample returns for the batch
PipelineBatch(e, ids, caps, cap_output, raised) ==
    IF raised THEN [e EXCEPT !.pc = "Raised"]
    ELSE IF \E i \in DOMAIN cap_output : ~HasKey(e.idx2word, cap_output[i])
    THEN [e EXCEPT !.pc = "KeyError"]
    ELSE LET decode_output == [i \in DOMAIN cap_output |->
                                  Get(e.idx2word, cap_output[i])]
         IN [e EXCEPT !.result = StoreSame(@, ids, decode_output, 1),
                      !.truth = Remember(@, ids, caps, 1),
                      !.done = @ + Len(ids)]

InitEval ==
    /\ inf = NoInfer /\ cl = NoClassif
    /\ ev \in {[NoEval EXCEPT !.pc = "start", !.fn = f, !.batch_size = b,
                               !.word2idx = w] :
                    f \in EvalFunctions, b \in 1..MaxBatch, w \in EvalVocabs}
    /\ self = NoModel /\ fwd = NoCall
    /\ voc = NoVoc /\ dec = NoDec /\ ls = NoLoss

\* idx2word = {v: k for k, v in dataset.word2idx.items()}; model.eval();
\* result = {}
EvalStart ==
    /\ ev.pc = "start"
    /\ ev' = [ev EXCEPT !.pc = "loop", !.idx2word = InvertDict(ev.word2idx),
                        !.mode = "eval", !.result = <<>>]
    /\ UNCHANGED <<self, fwd, voc, dec, ls, inf, cl>>

EvalCaptionsBatch ==
    /\ ev.pc = "loop" /\ ev.done < NumSamples
    /\ ev.fn \in {"eval_captions", "augmented_eval_captions"}
    /\ LET ids == BatchIds(ev.done, ev.batch_size)
       IN \E caps \in [DOMAIN ids -> Outputs], raised \in BOOLEAN :
             ev' = CaptionsBatch(ev, ids, caps, raised)
    /\ UNCHANGED <<self, fwd, voc, dec, ls, inf, cl>>

EvalPipelineBatch ==
    /\ ev.pc = "loop" /\ ev.done < NumSamples
    /\ ev.fn \in {"eval_pipeline", "eval_waterfall"}
    /\ LET ids == BatchIds(ev.done, ev.batch_size)
       IN \E caps \in [DOMAIN ids -> Outputs], raised \in BOOLEAN :
             \E j \in DOMAIN ids :
                ev' = PipelineBatch(ev, ids, caps, caps[j], raised)
    /\ UNCHANGED <<self, fwd, voc, dec, ls, inf, cl>>

\* with open(filename, "w") as outfile: json.dump(result, outfile)
EvalWrite ==
    /\ ev.pc = "loop" /\ ev.done = NumSamples
    /\ ev' = [ev EXCEPT !.pc = "written", !.file = ev.result,
                        !.written = @ + 1]
    /\ UNCHANGED <<self, fwd, voc, dec, ls, inf, cl>>

NextEval ==
    \/ EvalStart
    \/ EvalCaptionsBatch
    \/ EvalPipelineBatch
    \/ EvalWrite

SpecEval == InitEval /\ [][NextEval]_vars

----------------------------------------------------------------------------
(* Specification of the model's mode over the evaluation functions: each    *)
(* function puts the model in evaluation mode, then calls forward (or       *)
(* sample) once per batch.  enc[s] is what the graph encoder computes for   *)
(* sample s under the model's parameters, which no eval function updates;   *)
(* activations are in units that keep the dropout scaling integral.  A call *)
(* is recorded with the mode it ran in and whether it is the first call of  *)
(* its run.                                                                 *)

FeatValues == {7, 14}

FeatVectors == [1..MaxFeatsDim -> FeatValues]

\* the positions a dropout layer may zero in one call
Masks == SUBSET (1..MaxFeatsDim)

\* nn.Dropout(p=0.3): in training mode the masked elements are zeroed and
\* the others scaled by 1/(1-p); in evaluation mode it is the identity
Dropout(x, training, mask) ==
    IF training
    THEN [i \in DOMAIN x |->
             IF i \in mask THEN 0 ELSE (10 * x[i]) \div (10 - DropoutP)]
    ELSE x

\* the decoder is a function of its input: the id it favours per position
GreedyDecode(x) == [i \in DOMAIN x |-> x[i] % (MaxId + 1)]

\* graph_feats = self.dropout(self.encoder(g, feats)), then the decoder
InferForward(m, s, mask) == GreedyDecode(Dropout(m.enc[s], m.training, mask))

\* an evaluation function that leaves the model's mode as it finds it
ModelEvalNoop(m) == m

\* model.eval()
ModelEval(m) == [m EXCEPT !.training = FALSE]

AllEvalFunctions == EvalFunctions \cup {"eval_classification"}

\* the model handed to an eval function is in either mode
InitInfer ==
    /\ inf \in {[NoInfer EXCEPT !.pc = "start", !.training = t, !.enc = e] :
                    t \in BOOLEAN, e \in [1..MaxImages -> FeatVectors]}
    /\ cl = NoClassif
    /\ self = NoModel /\ fwd = NoCall
    /\ voc = NoVoc /\ dec = NoDec /\ ls = NoLoss /\ ev = NoEval

\* with torch.no_grad(): model.eval()
InferStart ==
    /\ inf.pc = "start"
    /\ \E f \in AllEvalFunctions :
          inf' = [ModelEval(inf) EXCEPT !.pc = "loop", !.fn = f,
                                        !.fresh = TRUE]
    /\ UNCHANGED <<self, fwd, voc, dec, ls, ev, cl>>

\* outputs = model(...) on the batch holding sample s
InferBatch ==
    /\ inf.pc = "loop"
    /\ Len(inf.calls) < MaxCalls
    /\ \E s \in 1..MaxImages, mask \in Masks :
          inf' = [inf EXCEPT !.fresh = FALSE,
                             !.calls =
                      Append(@, [first |-> inf.fresh, sample |-> s,
                                 training |-> inf.training,
                                 out |-> InferForward(inf, s, mask)])]
    /\ UNCHANGED <<self, fwd, voc, dec, ls, ev, cl>>

\* the function returns; another evaluation may follow on the same model
InferReturn ==
    /\ inf.pc = "loop"
    /\ inf' = [inf EXCEPT !.pc = "start", !.fn = "none"]
    /\ UNCHANGED <<self, fwd, voc, dec, ls, ev, cl>>

NextInfer == InferStart \/ InferBatch \/ InferReturn

SpecInfer == InitInfer /\ [][NextInfer]_vars

----------------------------------------------------------------------------
(* Specification of eval_classification: the loop over the batches (one     *)
(* sample each), then the printed test accuracy.  A score is the number of  *)
(* classes decided as the target says, out of NumClasses; the Python        *)
(* variable i is shared by the batch loop and the two printing loops.       *)

Labels == [1..NumClasses -> {0, 1}]

\* x.nonzero().shape[0]
CountNonzero(v) == Cardinality({c \in DOMAIN v : v[c] # 0})

\* f1_score(outputs, triplets, num_classes=2, mdmc_average='global'): the
\* micro average over all decisions, i.e. the share of matching decisions
f1_score(outputs, triplets) ==
    Cardinality({c \in DOMAIN outputs : outputs[c] = triplets[c]})

\* for i in range(count): ... leaves i at count - 1, or untouched if count = 0
AfterRange(i, count) == IF count > 0 THEN count - 1 ELSE i

\* the body of the loop on batch number c.batch
ClassificationBatch(c, logits, triplets) ==
    LET outputs == Decisions(SigmoidAll(logits))[1]
        accuracy == f1_score(outputs, triplets)
        i1 == AfterRange(c.batch, CountNonzero(triplets))
        i2 == AfterRange(i1, CountNonzero(outputs))
    IN [c EXCEPT !.i = i2, !.accuracy_test = @ + accuracy,
                 !.scores = Append(@, accuracy), !.batch = @ + 1]

InitClassification ==
    /\ cl \in {[NoClassif EXCEPT !.pc = "loop", !.n = n] : n \in 1..NumSamples}
    /\ inf = NoInfer
    /\ self = NoModel /\ fwd = NoCall
    /\ voc = NoVoc /\ dec = NoDec /\ ls = NoLoss /\ ev = NoEval

EvalClassificationBatch ==
    /\ cl.pc = "loop" /\ cl.batch < cl.n
    /\ \E logits \in Logits(1), triplets \in Labels :
          cl' = ClassificationBatch(cl, logits, triplets)
    /\ UNCHANGED <<self, fwd, voc, dec, ls, ev, inf>>

\* print('Test accuracy: {:.3f}'.format(accuracy_test/i))
EvalClassificationReport ==
    /\ cl.pc = "loop" /\ cl.batch = cl.n
    /\ cl' = [cl EXCEPT !.pc = "reported",
                        !.report = [num |-> cl.accuracy_test,
                                    den |-> cl.i * NumClasses]]
    /\ UNCHANGED <<self, fwd, voc, dec, ls, ev, inf>>

NextClassification == EvalClassificationBatch \/ EvalClassificationReport

SpecClassification == InitClassification /\ [][NextClassification]_vars

----------------------------------------------------------------------------
(* Claims about forward *)

Classifying == self.cls \in {"FinalModel", "FinetunedModel"}

Has(step) == \E i \in DOMAIN fwd.steps : fwd.steps[i] = step

\* C1: every per-sample triplet list handed to tripl2graph is non-empty: a
\* sample whose selected set is empty gets exactly the placeholder triplet,
\* a sample whose selected set is non-empty is handed over unchanged.
C1_NoEmptyTripletList ==
    (Classifying /\ Has("tripl2graph")) =>
        /\ Len(fwd.triplets) = Len(fwd.class_out)
        /\ Len(fwd.selected) = Len(fwd.class_out)
        /\ \A s \in DOMAIN fwd.triplets :
              /\ fwd.triplets[s] # <<>>
              /\ fwd.selected[s] = <<>> => fwd.triplets[s] = <<Placeholder>>
              /\ fwd.selected[s] # <<>> => fwd.triplets[s] = fwd.selected[s]

C1_Witness ==
    /\ self.cls = "FinalModel"
    /\ Has("tripl2graph")
    /\ \E s, t \in DOMAIN fwd.selected :
          /\ fwd.selected[s] = <<>> /\ fwd.triplets[s] = <<Placeholder>>
          /\ Len(fwd.selected[t]) = 2 /\ fwd.triplets[t] = fwd.selected[t]

RECURSIVE TotalNodes(_)
TotalNodes(graphs) ==
    IF graphs = <<>> THEN 0 ELSE Len(graphs[1].nodes) + TotalNodes(Tail(graphs))

\* C2: the graph builder yields, per sample, 3 * #triplets nodes and
\* 2 * #triplets edges (s->p and p->o of each triplet, repeated terms kept
\* apart) and one feature row per node in the batched node order; the
\* placeholder-only sample yields 3 nodes and 2 edges.
C2_GraphSize ==
    (Classifying /\ Has("tripl2graph")) =>
        /\ Len(fwd.graph) = Len(fwd.triplets)
        /\ \A s \in DOMAIN fwd.graph :
              LET ts == fwd.triplets[s]
                  g == fwd.graph[s]
              IN /\ Len(g.nodes) = 3 * Len(ts)
                 /\ Len(g.edges) = 2 * Len(ts)
                 /\ \A k \in DOMAIN ts :
                       /\ g.nodes[3 * k - 2] = ts[k][1]
                       /\ g.nodes[3 * k - 1] = ts[k][2]
                       /\ g.nodes[3 * k] = ts[k][3]
                       /\ g.edges[2 * k - 1] = <<3 * k - 3, 3 * k - 2>>
                       /\ g.edges[2 * k] = <<3 * k - 2, 3 * k - 1>>
                 /\ ts = <<Placeholder>> =>
                       Len(g.nodes) = 3 /\ Len(g.edges) = 2
        /\ Len(fwd.feats) = TotalNodes(fwd.graph)
        /\ \A s \in DOMAIN fwd.graph : \A j \in DOMAIN fwd.graph[s].nodes :
              fwd.feats[TotalNodes(SubSeq(fwd.graph, 1, s - 1)) + j]
                  = fwd.graph[s].nodes[j]

C2_Witness ==
    /\ self.cls = "FinalModel"
    /\ Has("tripl2graph")
    /\ \E s, t \in DOMAIN fwd.triplets :
          /\ fwd.triplets[s] = <<Placeholder>> /\ Len(fwd.graph[s].nodes) = 3
          /\ Len(fwd.triplets[t]) = 2 /\ Len(fwd.graph[t].nodes) = 6
          /\ Len(fwd.graph[t].edges) = 4
    /\ Len(fwd.feats) = 9

ShapeMatches(size) ==
    fwd.img_shape[1] = size /\ fwd.img_shape[2] = size

NothingAfterClassifier ==
    /\ fwd.steps = <<"tripl_classifier">>
    /\ fwd.class_out = <<>> /\ fwd.selected = <<>> /\ fwd.triplets = <<>>
    /\ fwd.graph = <<>> /\ fwd.feats = <<>>
    /\ fwd.mod_width = 0 /\ fwd.decoded_by = "none"

\* C4: the classifiers' forward fails with an assertion error whenever the
\* image's height or width differs from input_size and passes the check only
\* when both equal it; in FinalModel.forward the failure comes before any
\* triplet selection, placeholder substitution, graph construction or
\* decoding.
C4_ShapeFailsFast ==
    /\ (Classifying /\ fwd.pc # "idle") =>
          IF ShapeMatches(self.input_size)
          THEN Has("select")
          ELSE fwd.pc = "AssertionError" /\ NothingAfterClassifier
    /\ (self.cls \in {"FinalModel", "AugmentedCaptionGenerator"}
            /\ Has("img_encoder")) =>
          IF ShapeMatches(self.enc_input_size)
          THEN Has("graph_encoder")
          ELSE fwd.pc = "AssertionError" /\ ~Has("graph_encoder")
                 /\ fwd.decoded_by = "none"

C4_Witness ==
    /\ self.cls = "FinalModel"
    /\ fwd.img_shape = <<self.input_size, self.input_size + 1>>
    /\ fwd.pc = "AssertionError"
    /\ NothingAfterClassifier

\* C5: the width the decoder was constructed with equals the width of the
\* fused vector forward hands to it (feats_dim under the weighted sum,
\* 2 * feats_dim under concatenation), for every decoder strategy.
C5_DecoderWidthIsFusedWidth ==
    (self.cls \in {"AugmentedCaptionGenerator", "FinalModel"} /\ Has("fusion")) =>
        /\ fwd.mod_width = (IF self.cls = "FinalModel"
                            THEN 2 * self.feats_dim ELSE self.feats_dim)
        /\ self.decoder_in = fwd.mod_width

\* C6: for CaptionGenerator, AugmentedCaptionGenerator and FinalModel and
\* each of the three decoder values, a forward that reaches the dispatch
\* binds decoded_out through exactly the chosen strategy: it never ends
\* with decoded_out unbound, and what it returns was decoded by the
\* strategy chosen at construction.
C6_DispatchesToChosenStrategy ==
    (self.cls \in {"CaptionGenerator", "AugmentedCaptionGenerator", "FinalModel"}
        /\ Has("graph_encoder")) =>
        /\ fwd.pc # "UnboundLocalError"
        /\ Has("decoder")
        /\ fwd.pc = "returned" => fwd.decoded_by = self.decoder_type

----------------------------------------------------------------------------
(* Claims about the vocabulary *)

\* C8: for every token t of the vocabulary, the id of t is a key of the
\* inverted mapping and maps back to t, and the inverted mapping has as
\* many entries as the vocabulary.
C8_VocabularyRoundTrip ==
    voc.pc = "built" =>
        /\ Len(voc.idx2vocab) = Len(voc.vocab2idx)
        /\ \A i \in DOMAIN voc.vocab2idx :
              LET t == voc.vocab2idx[i][1]
                  id == Get(voc.vocab2idx, t)
              IN /\ HasKey(voc.idx2vocab, id)
                 /\ Get(voc.idx2vocab, id) = t

C8_Witness ==
    /\ voc.pc = "built"
    /\ Len(voc.vocab2idx) = Cardinality(Tokens)
    /\ voc.vocab2idx[1][2] > voc.vocab2idx[2][2]
    /\ Get(voc.idx2vocab, voc.vocab2idx[1][2]) = voc.vocab2idx[1][1]

----------------------------------------------------------------------------
(* Claims about the decoder *)

\* C3: in free-running mode the decoder emits at most max_seq_len tokens,
\* touches no position >= max_seq_len and emits nothing after the
\* end-of-sequence token; every step advances the position, which is
\* bounded, so decoding ends. Teacher-forced mode runs exactly max_seq_len
\* steps.
C3_DecodingBounded ==
    dec.pc # "off" =>
        /\ Len(dec.out) <= dec.max_seq_len
        /\ dec.pos = Len(dec.out)
        /\ \A p \in dec.touched : p >= 0 /\ p < dec.max_seq_len
        /\ dec.pc = "run" => dec.pos < dec.max_seq_len
        /\ dec.mode = "sample" =>
              /\ \A i \in DOMAIN dec.out : IsEos(dec.out[i]) => i = Len(dec.out)
              /\ (dec.out # <<>> /\ IsEos(dec.out[Len(dec.out)])) => dec.pc = "done"
        /\ (dec.mode = "teacher" /\ dec.pc = "done") =>
              Len(dec.out) = dec.max_seq_len

C3_Witness ==
    /\ dec.mode = "sample" /\ dec.pc = "done"
    /\ Len(dec.out) = 2 /\ dec.max_seq_len = 3
    /\ ~IsEos(dec.out[1]) /\ IsEos(dec.out[2])

----------------------------------------------------------------------------
(* Claims about the loss *)

RECURSIVE RowNLL(_, _, _)
RowNLL(b, i, n) ==
    IF i > n THEN 0
    ELSE NLL(ls.out[i][b], IF i <= Len(ls.labels[b]) THEN ls.labels[b][i] ELSE 0)
         + RowNLL(b, i + 1, n)

RECURSIVE AllNLL(_)
AllNLL(b) ==
    IF b > Len(ls.labels) THEN 0
    ELSE RowNLL(b, 1, ls.max_seq_len) + AllNLL(b + 1)

\* C7: _loss reads exactly the positions 0..max_seq_len-1 and is the sum of
\* every sample's cross-entropy at every position, padding positions
\* included, divided by the batch size and by max_seq_len: each position
\* weighs 1/max_seq_len.
C7_LossAveragesAllPositions ==
    ls.pc = "done" =>
        /\ ls.read = [i \in 1..ls.max_seq_len |-> i - 1]
        /\ ls.loss.den > 0
        /\ ls.loss.num * (Len(ls.labels) * ls.max_seq_len)
               = AllNLL(1) * ls.loss.den

C7_Witness ==
    /\ ls.pc = "done"
    /\ ls.max_seq_len = 2 /\ Len(ls.labels) = 2
    /\ Len(ls.labels[1]) = 1 /\ Len(ls.labels[2]) = 2
    /\ ls.out[2][1] = 1
    /\ ls.loss.num * 4 = 8 * ls.loss.den

----------------------------------------------------------------------------
(* Claims about the evaluation functions *)

\* C9: a vocabulary lookup made while turning decoder output into a caption
\* never raises: an id that is not a key of the mapping resolves to the
\* unknown token instead of aborting the run.
C9_LookupNeverRaises == ev.pc # "KeyError"

KeysOf(d) == {d[i][1] : i \in DOMAIN d}

ValuesOf(d) == {d[i][2] : i \in DOMAIN d}

ProcessedInOrder ==
    /\ Len(ev.truth) = ev.done
    /\ \A k \in DOMAIN ev.truth : ev.truth[k][1] = k

Failed == ev.pc \in {"Raised", "KeyError"}

Selecting == Classifying /\ Has("select")

\* the class indices 0..n-1 of a sample, as the sequence of the triplets
\* of those that satisfy Keep, in increasing index order
RECURSIVE InOrder(_, _, _)
InOrder(keep, n, c) ==
    IF c >= n THEN <<>>
    ELSE (IF c \in keep THEN <<Get(self.idx2tripl, c)>> ELSE <<>>)
         \o InOrder(keep, n, c + 1)

PresentWins(s) ==
    {c \in 0..(Len(fwd.class_out[s]) - 1) :
        fwd.class_out[s][c + 1][2] > fwd.class_out[s][c + 1][1]}

PresentAtLeastThreshold(s) ==
    {c \in 0..(Len(fwd.class_out[s]) - 1) :
        fwd.class_out[s][c + 1][2] >= Threshold}

\* C13 as stated: in FinalModel.forward a class is in a sample's active
\* triplet set exactly when its sigmoid-activated 'present' score is at least
\* the threshold 0.5; the set lists the classes in increasing index order,
\* each mapped through idx2tripl.
C13_SelectedIffPresentAtLeastThreshold ==
    (Selecting /\ self.cls = "FinalModel") =>
        \A s \in DOMAIN fwd.selected :
            fwd.selected[s] =
                InOrder(PresentAtLeastThreshold(s), Len(fwd.class_out[s]), 0)

\* C13 amended: a class is in a sample's active triplet set exactly when its
\* 'present' score is strictly greater than its 'absent' score (the argmax of
\* the pair is 1; the threshold 0.5 is compared with that 0/1 decision, not
\* with the score); the set lists the classes in increasing index order, each
\* mapped through idx2tripl.
C13_SelectedIffPresentWins ==
    Selecting =>
        \A s \in DOMAIN fwd.selected :
            fwd.selected[s] = InOrder(PresentWins(s), Len(fwd.class_out[s]), 0)

C13_Witness ==
    /\ Selecting /\ self.cls = "FinalModel"
    /\ \E s \in DOMAIN fwd.selected :
          /\ fwd.class_out[s] = << <<1, 3>>, <<9, 7>> >>
          /\ fwd.selected[s] = <<Get(self.idx2tripl, 0)>>
    /\ \E s \in DOMAIN fwd.selected :
          /\ Len(fwd.selected[s]) = 2
          /\ fwd.selected[s][1] = Get(self.idx2tripl, 0)
          /\ fwd.selected[s][2] = Get(self.idx2tripl, 1)

----------------------------------------------------------------------------
(* Claims about the model's mode *)

\* C12: the evaluation functions put the model in evaluation mode before
\* their first forward/sample call, and two such calls on the same sample,
\* with no parameter update in between, decode the same caption.
C12_EvalIsDeterministic ==
    \A a \in DOMAIN inf.calls :
        /\ ~inf.calls[a].training
        /\ \A b \in DOMAIN inf.calls :
              inf.calls[a].sample = inf.calls[b].sample =>
                  inf.calls[a].out = inf.calls[b].out

C12_Witness ==
    \E a \in DOMAIN inf.calls, b \in DOMAIN inf.calls :
        /\ a < b
        /\ inf.calls[a].sample = inf.calls[b].sample
        /\ inf.calls[a].first /\ inf.calls[b].first
        /\ inf.calls[a].out = inf.calls[b].out
        /\ \E c \in DOMAIN inf.calls : inf.calls[c].out # inf.calls[a].out

----------------------------------------------------------------------------
(* Claims about eval_classification *)

RECURSIVE SumSeq(_)
SumSeq(q) == IF q = <<>> THEN 0 ELSE Head(q) + SumSeq(Tail(q))

\* C15: eval_classification reports the mean of the per-batch F1 scores:
\* the sum of the scores of the batches processed divided by their number,
\* whatever the number of true or predicted triplets printed per batch.
C15_ReportsMean ==
    cl.pc = "reported" =>
        /\ cl.report.den # 0
        /\ cl.report.num * (cl.n * NumClasses) = SumSeq(cl.scores) * cl.report.den

====
